---- MODULE Spec2Model ----
(***************************************************************************)
(* Bridge-Online: the Flask game server of src/server.py.                  *)
(*                                                                         *)
(* State: the process-wide dictionary no_players (uuid -> {'name',         *)
(* 'hands'}), kept in insertion order as Python dictionaries are.  The     *)
(* handlers are /ready, /clear, /checkplayers, /start and /gethands/<id>.  *)
(*                                                                         *)
(* Three specifications are given.  Spec serves one request at a time      *)
(* (each handler runs to completion).  SpecThreaded is the server as       *)
(* app.run() starts it, one thread per request: /start is then a sequence  *)
(* of steps (one per loop iteration) that other requests may interleave    *)
(* with.  SpecDeck is a Deck object on its own, built, shuffled and dealt  *)
(* from with any arguments.                                                *)
(***************************************************************************)
EXTENDS Integers, Sequences, FiniteSets, TLC

(***************************************************************************)
(* Bounds of the model.                                                    *)
(***************************************************************************)
\* uuid4 values the server may issue in one run (registrations in total)
MaxIds == 5
\* ... and while /start requests run in threads of their own
MaxThreadedIds == 2
\* the arguments of Deck.deal when a deck is dealt from on its own
MaxDealHands == 5
MaxDealCards == 13
\* the calls made on one Deck object after it is built
MaxDeckCalls == 3

(***************************************************************************)
(* Program constants.                                                      *)
(***************************************************************************)
\* range(1, 14): ranks 1..13
NumRanks == 13
\* deck.deal(4, 13)
NumHands == 4
HandSize == 13

Suits == <<"Hearts", "Diamonds", "Spades", "Clubs">>

Names == {"ben", "bel"}

\* the names players register under while /start requests run in threads
ThreadedNames == {"ben"}

\* the request threads that may run /start at the same time
Threads == {"t1", "t2"}

(***************************************************************************)
(* Card and Deck.                                                          *)
(***************************************************************************)
Card(suit, rank) == [suit |-> suit, rank |-> rank]

\* Deck.__init__: for suit in [...]: for rank in range(1, 14): append
BuildDeck ==
    [k \in 1..(Len(Suits) * NumRanks) |->
        Card(Suits[((k - 1) \div NumRanks) + 1], ((k - 1) % NumRanks) + 1)]

\* The outcomes of random.shuffle that the model draws from: the permutations
\* k -> stride * k + shift (mod 52), given as <<stride, shift>> with a stride
\* that has no common factor with 52.  <<1, 0>> leaves the deck as built.
Shuffles == {<<1, 0>>, <<3, 0>>}

\* Deck.shuffle: the cards permuted in place
Shuffle(cards, s) ==
    [k \in 1..Len(cards) |-> cards[((s[1] * (k - 1) + s[2]) % Len(cards)) + 1]]

\* a bug pop could have: the last element is read and stays in the list
PopPeek(cards) == [card |-> cards[Len(cards)], cards |-> cards]

\* list.pop(): the last element leaves the list
Pop(cards) == [card |-> cards[Len(cards)], cards |-> SubSeq(cards, 1, Len(cards) - 1)]

\* the inner loop of Deck.deal: num_cards pops appended to one hand
RECURSIVE DealHand(_, _, _)
DealHand(cards, hand, j) ==
    IF j = 0 THEN [hand |-> hand, cards |-> cards]
    ELSE LET p == Pop(cards)
         IN DealHand(p.cards, Append(hand, p.card), j - 1)

\* a bug the outer loop could have: every hand is dealt from the deck as it
\* was when the call began
RECURSIVE DealHandsAfresh(_, _, _, _)
DealHandsAfresh(cards, hands, i, num_cards) ==
    IF i = 0 THEN [hands |-> hands, cards |-> cards]
    ELSE LET h == DealHand(cards, <<>>, num_cards)
         IN DealHandsAfresh(cards, Append(hands, h.hand), i - 1, num_cards)

\* the outer loop of Deck.deal
RECURSIVE DealHands(_, _, _, _)
DealHands(cards, hands, i, num_cards) ==
    IF i = 0 THEN [hands |-> hands, cards |-> cards]
    ELSE LET h == DealHand(cards, <<>>, num_cards)
         IN DealHands(h.cards, Append(hands, h.hand), i - 1, num_cards)

\* a bug Deck.deal could have: the deck is found too small after a card has
\* been popped from it
DealLate(cards, num_hands, num_cards) ==
    IF num_cards * num_hands > Len(cards)
    THEN [err |-> "ValueError", hands |-> <<>>,
          cards |-> SubSeq(cards, 1, Len(cards) - 1)]
    ELSE LET d == DealHands(cards, <<>>, num_hands, num_cards)
         IN [err |-> "none", hands |-> d.hands, cards |-> d.cards]

\* Deck.deal: ValueError before any pop when the deck is too small
Deal(cards, num_hands, num_cards) ==
    IF num_cards * num_hands > Len(cards)
    THEN [err |-> "ValueError", hands |-> <<>>, cards |-> cards]
    ELSE LET d == DealHands(cards, <<>>, num_hands, num_cards)
         IN [err |-> "none", hands |-> d.hands, cards |-> d.cards]

\* the order a suit enumeration would give: Hearts, Diamonds, Spades, Clubs
SuitOrdListed(suit) ==
    CASE suit = "Hearts" -> 1
      [] suit = "Diamonds" -> 2
      [] suit = "Spades" -> 3
      [] suit = "Clubs" -> 4

\* Python's order on the four suit strings ('Clubs' < 'Diamonds' < ...)
SuitOrd(suit) ==
    CASE suit = "Clubs" -> 1
      [] suit = "Diamonds" -> 2
      [] suit = "Hearts" -> 3
      [] suit = "Spades" -> 4

\* suit_sort gives the key (card.suit, card.rank); tuples compare lexicographically
KeyLess(c, d) ==
    \/ SuitOrd(c.suit) < SuitOrd(d.suit)
    \/ c.suit = d.suit /\ c.rank < d.rank

\* sorted(hand, key=suit_sort): a stable sort, here by insertion
RECURSIVE Insert(_, _)
Insert(sorted, c) ==
    IF sorted = <<>> THEN <<c>>
    ELSE IF KeyLess(c, sorted[Len(sorted)])
         THEN Append(Insert(SubSeq(sorted, 1, Len(sorted) - 1), c), sorted[Len(sorted)])
         ELSE Append(sorted, c)

RECURSIVE SortFrom(_, _, _)
SortFrom(hand, k, acc) ==
    IF k > Len(hand) THEN acc ELSE SortFrom(hand, k + 1, Insert(acc, hand[k]))

\* deck = Deck(); deck.shuffle(); deck.deal(4, 13), for each outcome of the shuffle
DealOf == [s \in Shuffles |-> Deal(Shuffle(BuildDeck, s), NumHands, HandSize)]

\* the hands a deal can give, in the order they were dealt in
DealtHands == {DealOf[s].hands[y] : s \in Shuffles, y \in 1..NumHands}

\* the sort of each of them, computed once
SortOf == [h \in DealtHands |-> SortFrom(h, 1, <<>>)]

Sorted(hand) == IF hand \in DealtHands THEN SortOf[hand] ELSE SortFrom(hand, 1, <<>>)

(***************************************************************************)
(* The server's state.                                                     *)
(*   no_players  the global dictionary, as the sequence of its entries in  *)
(*               insertion order; entry.dealt says the entry has the key   *)
(*               'hands', entry.hands is the list stored under it          *)
(*   issued      how many uuid4 values have been returned (uuid4 is        *)
(*               modelled as returning the identifiers 1, 2, ... : each    *)
(*               differs from all earlier ones)                            *)
(*   thr         the /start requests in progress, one record per thread    *)
(*   last        the request completed last and its response               *)
(*   seen        what the /start that was served alone last left behind:   *)
(*               its local variables hands and deck when it ended, the     *)
(*               number of entries it found (count) and whether one of     *)
(*               them held a hand already (redeal), and the outcome of     *)
(*               its deck.shuffle() (shuffle, as in Shuffles)              *)
(*   registered  how many /ready requests have completed since the last    *)
(*               /clear, or since the server began if there was none       *)
(*   dk          a Deck object on its own: its list cards, and of the call *)
(*               made on it last the name (op), the arguments, the hands   *)
(*               returned or the error raised, and the list before it      *)
(***************************************************************************)
VARIABLES no_players, issued, thr, last, seen, dk, registered

vars == <<no_players, issued, thr, last, seen, dk, registered>>

server == <<no_players, issued, thr, last, seen, registered>>

\* a thread that runs no /start
IdleThread ==
    [pc |-> "idle", hands |-> <<>>, deck |-> <<>>, y |-> 0, used |-> 0,
     live |-> TRUE, size |-> 0, tmp |-> <<>>]

\* a response, with the fields every handler's response has
Response(op, status, err) ==
    [op |-> op, status |-> status, err |-> err, id |-> 0, name |-> "",
     body |-> <<>>, count |-> 0]

\* some entry of the dictionary has the key 'hands'
AnyDealt(reg) == \E k \in 1..Len(reg) : reg[k].dealt

\* a bug ready could have: the registry keyed by the player's name, so that a
\* name registered again takes the place of the entry it had
AddPlayerByName(reg, id, name) ==
    IF \E k \in 1..Len(reg) : reg[k].name = name
    THEN [k \in 1..Len(reg) |->
            IF reg[k].name = name
            THEN [id |-> id, name |-> name, dealt |-> FALSE, hands |-> <<>>]
            ELSE reg[k]]
    ELSE Append(reg, [id |-> id, name |-> name, dealt |-> FALSE, hands |-> <<>>])

\* no_players[str(random_uuid)] = {'name': request.json['name']}
AddPlayer(reg, id, name) ==
    Append(reg, [id |-> id, name |-> name, dealt |-> FALSE, hands |-> <<>>])

\* a bug /clear could have: the hands are dropped, the entries stay
ClearedHandsOnly(reg) ==
    [k \in 1..Len(reg) |-> [reg[k] EXCEPT !.dealt = FALSE, !.hands = <<>>]]

\* no_players = {} in clear: the dictionary the global name is bound to afterwards
Cleared(reg) == <<>>

\* a bug the lookup could have: a key that is not there falls back to the
\* first entry
PositionOrFirst(reg, id) ==
    IF \E k \in 1..Len(reg) : reg[k].id = id
    THEN CHOOSE k \in 1..Len(reg) : reg[k].id = id
    ELSE IF reg = <<>> THEN 0 ELSE 1

\* the position of key id in the dictionary, 0 when it is no key
Position(reg, id) ==
    IF \E k \in 1..Len(reg) : reg[k].id = id
    THEN CHOOSE k \in 1..Len(reg) : reg[k].id = id
    ELSE 0

\* a bug the first loop could have: every player is given hands[0]
AssignFirstHand(reg, y, hands) ==
    [reg EXCEPT ![y + 1].dealt = TRUE, ![y + 1].hands = hands[1]]

\* a bug the first loop could have: the hands are given out last hand first
AssignHandFromLast(reg, y, hands) ==
    [reg EXCEPT ![y + 1].dealt = TRUE, ![y + 1].hands = hands[Len(hands) - y]]

\* a bug the first loop could have: a player who holds a hand keeps it
AssignHandOnce(reg, y, hands) ==
    IF reg[y + 1].dealt THEN reg
    ELSE [reg EXCEPT ![y + 1].dealt = TRUE, ![y + 1].hands = hands[y + 1]]

\* no_players[i]['hands'] = hands[y], for the y-th key i (y counts from 0)
AssignHand(reg, y, hands) ==
    [reg EXCEPT ![y + 1].dealt = TRUE, ![y + 1].hands = hands[y + 1]]

\* a bug the second loop could have: the entry is replaced by one that has
\* the hand only, and the name is lost
StoreHandAsEntry(reg, y, hand) ==
    [reg EXCEPT ![y + 1] = [id |-> @.id, name |-> "", dealt |-> TRUE, hands |-> hand]]

\* no_players[i]['hands'] = <the sorted list>, for the y-th key i
StoreHand(reg, y, hand) == [reg EXCEPT ![y + 1].hands = hand]

\* hand.append((str(i.rank), str(i.suit))) for each card of the stored list
RECURSIVE EncodeFrom(_, _, _)
EncodeFrom(hand, k, acc) ==
    IF k > Len(hand) THEN acc
    ELSE EncodeFrom(hand, k + 1, Append(acc, <<ToString(hand[k].rank), hand[k].suit>>))

\* a bug gethand could have: the first card of the list is skipped
EncodeTail(hand) == EncodeFrom(hand, 2, <<>>)

EncodeHand(hand) == EncodeFrom(hand, 1, <<>>)

(***************************************************************************)
(* /start, step by step.  A step takes the thread's record t and the       *)
(* dictionary reg and gives the thread's record and the dictionary after   *)
(* it; the thread is back at "idle" when the handler has returned or       *)
(* raised, and resp is then its response.                                  *)
(*                                                                         *)
(* A for loop over the dictionary holds an iterator: the dictionary        *)
(* object, its size when the loop began (used) and the position y.  The    *)
(* dictionary object is the global one (live) until /clear rebinds the     *)
(* global name; from then on the iterator's object is the old dictionary,  *)
(* of fixed size, and none of its keys is a key of the new one.            *)
(***************************************************************************)
\* the handler ends: an unhandled exception, or return 'true'
Raise(t, reg, err) ==
    [t |-> [t EXCEPT !.pc = "idle"], reg |-> reg, resp |-> Response("start", "error", err)]

Return(t, reg) ==
    [t |-> [t EXCEPT !.pc = "idle"], reg |-> reg, resp |-> Response("start", "ok", "none")]

Continue(t, reg) == [t |-> t, reg |-> reg, resp |-> last]

\* the size of the dictionary object the thread's iterator is over
IterSize(t, reg) == IF t.live THEN Len(reg) ELSE t.size

\* what start could do instead: refuse to deal when nobody is registered
BeginStartNeedsPlayers(reg, s) ==
    LET d == DealOf[s]
        t == [IdleThread EXCEPT !.hands = d.hands, !.deck = d.cards]
    IN IF d.err # "none" \/ reg = <<>> THEN Raise(t, reg, "ValueError")
       ELSE Continue([t EXCEPT !.pc = "assign", !.used = Len(reg)], reg)

\* deck = Deck(); deck.shuffle(); hands = deck.deal(4, 13); iter(no_players)
BeginStart(reg, s) ==
    LET d == DealOf[s]
        t == [IdleThread EXCEPT !.hands = d.hands, !.deck = d.cards]
    IN IF d.err # "none" THEN Raise(t, reg, d.err)
       ELSE Continue([t EXCEPT !.pc = "assign", !.used = Len(reg)], reg)

\* one turn of: for y, i in enumerate(no_players): no_players[i]['hands'] = hands[y]
AssignStep(t, reg) ==
    IF t.used # IterSize(t, reg) THEN Raise(t, reg, "RuntimeError")
    ELSE IF t.y >= t.used
    THEN Continue([t EXCEPT !.pc = "sort", !.y = 0, !.used = Len(reg),
                            !.live = TRUE, !.size = 0], reg)
    ELSE IF t.y >= Len(t.hands) THEN Raise(t, reg, "IndexError")
    ELSE IF ~t.live THEN Raise(t, reg, "KeyError")
    ELSE Continue([t EXCEPT !.y = t.y + 1], AssignHand(reg, t.y, t.hands))

\* one turn of: for i in no_players: ... sorted(no_players[i]['hands'], key=suit_sort)
SortStep(t, reg) ==
    IF t.used # IterSize(t, reg) THEN Raise(t, reg, "RuntimeError")
    ELSE IF t.y >= t.used
    THEN Return(t, reg)
    ELSE IF ~t.live \/ ~reg[t.y + 1].dealt THEN Raise(t, reg, "KeyError")
    ELSE Continue([t EXCEPT !.pc = "store", !.tmp = Sorted(reg[t.y + 1].hands)], reg)

\* ... no_players[i]['hands'] = <the sorted list>
StoreStep(t, reg) ==
    IF ~t.live THEN Raise(t, reg, "KeyError")
    ELSE Continue([t EXCEPT !.pc = "sort", !.y = t.y + 1, !.tmp = <<>>],
                  StoreHand(reg, t.y, t.tmp))

StartStep(t, reg) ==
    CASE t.pc = "assign" -> AssignStep(t, reg)
      [] t.pc = "sort" -> SortStep(t, reg)
      [] t.pc = "store" -> StoreStep(t, reg)

\* the handler run from its first statement to its return or its exception
RECURSIVE RunSteps(_)
RunSteps(r) == IF r.t.pc = "idle" THEN r ELSE RunSteps(StartStep(r.t, r.reg))

RunStart(reg, s) == RunSteps(BeginStart(reg, s))

\* no Deck object of its own: the server builds its decks inside /start
NoDeck ==
    [cards |-> <<>>, op |-> "none", n |-> 0, k |-> 0,
     hands |-> <<>>, err |-> "none", before |-> <<>>, calls |-> 0]

\* Deck(): the 52 cards in the order they are built in, no call made yet
NewDeck ==
    [cards |-> BuildDeck, op |-> "new", n |-> 0, k |-> 0,
     hands |-> <<>>, err |-> "none", before |-> <<>>, calls |-> 0]

(***************************************************************************)
(* Initial state: __main__ sets no_players = {} and runs the app.          *)
(***************************************************************************)
Init ==
    /\ no_players = <<>>
    /\ issued = 0
    /\ thr = [t \in Threads |-> IdleThread]
    /\ last = Response("none", "ok", "none")
    /\ seen = [hands |-> <<>>, deck |-> <<>>, count |-> 0, redeal |-> FALSE,
               shuffle |-> <<1, 0>>]
    /\ dk = NoDeck
    /\ registered = 0

(***************************************************************************)
(* The handlers that are one step.                                         *)
(***************************************************************************)
\* POST /ready
Ready(name) ==
    /\ issued < MaxIds
    /\ issued' = issued + 1
    /\ no_players' = AddPlayer(no_players, issued + 1, name)
    /\ last' = [Response("ready", "ok", "none") EXCEPT !.id = issued + 1, !.name = name]
    /\ registered' = registered + 1
    /\ UNCHANGED <<thr, seen, dk>>

\* GET /clear: the global name is bound to a new dictionary; a loop in
\* progress keeps the old one
Clear ==
    /\ no_players' = Cleared(no_players)
    /\ thr' = [t \in Threads |->
                 IF thr[t].pc # "idle" /\ thr[t].live
                 THEN [thr[t] EXCEPT !.live = FALSE, !.size = Len(no_players)]
                 ELSE thr[t]]
    /\ last' = Response("clear", "ok", "none")
    /\ registered' = 0
    /\ UNCHANGED <<issued, seen, dk>>

\* a bug check could have: only the players that hold a hand are counted
PlayerCountDealt(reg) == Cardinality({k \in 1..Len(reg) : reg[k].dealt})

\* str(len(no_players))
PlayerCount(reg) == Len(reg)

\* GET /checkplayers
Check ==
    /\ last' = [Response("checkplayers", "ok", "none") EXCEPT
                   !.count = PlayerCount(no_players)]
    /\ UNCHANGED <<no_players, issued, thr, seen, dk, registered>>

\* the response of gethand(id)
HandOf(reg, id) ==
    LET k == Position(reg, id)
    IN IF k = 0 \/ ~reg[k].dealt
       THEN [Response("gethand", "error", "KeyError") EXCEPT !.id = id]
       ELSE [Response("gethand", "ok", "none") EXCEPT
                !.id = id, !.body = EncodeHand(reg[k].hands)]

\* GET /gethands/<id>, for an identifier the server issued or one it never did (0)
GetHand(id) ==
    /\ last' = HandOf(no_players, id)
    /\ UNCHANGED <<no_players, issued, thr, seen, dk, registered>>

\* the card the client plays: hands[0] of the hand it read back, or, of a
\* player that holds no hand, the first card a deck is built with
CardToPlay(reg, id) ==
    LET k == Position(reg, id)
    IN  IF k # 0 /\ reg[k].dealt /\ reg[k].hands # <<>>
        THEN reg[k].hands[1]
        ELSE BuildDeck[1]

\* POST /playcard/<id> with a card: the route is commented out, the server
\* has no handler for it and answers 404 Not Found; no state is touched
PlayCard(id, card) ==
    /\ last' = [Response("playcard", "error", "NotFound") EXCEPT
                   !.id = id, !.body = EncodeHand(<<card>>)]
    /\ UNCHANGED <<no_players, issued, thr, seen, dk, registered>>

(***************************************************************************)
(* /start served alone: the whole handler in one step.                     *)
(***************************************************************************)
Start ==
    \E s \in Shuffles : \E r \in {RunStart(no_players, s)} :
           /\ no_players' = r.reg
           /\ last' = r.resp
           /\ seen' = [hands |-> r.t.hands, deck |-> r.t.deck,
                       count |-> Len(no_players), redeal |-> AnyDealt(no_players),
                       shuffle |-> s]
           /\ UNCHANGED <<issued, thr, dk, registered>>

Next ==
    \/ \E name \in Names : Ready(name)
    \/ Clear
    \/ Check
    \/ \E id \in 0..issued : GetHand(id)
    \/ \E id \in 0..issued : PlayCard(id, CardToPlay(no_players, id))
    \/ Start

Spec == Init /\ [][Next]_vars

(***************************************************************************)
(* /start served by a thread of its own.                                   *)
(***************************************************************************)
Apply(t, r) ==
    /\ thr' = [thr EXCEPT ![t] = IF r.t.pc = "idle" THEN IdleThread ELSE r.t]
    /\ no_players' = r.reg
    /\ last' = r.resp
    /\ UNCHANGED <<issued, seen, dk, registered>>

StartBegin(t) ==
    /\ thr[t].pc = "idle"
    /\ \E s \in Shuffles : Apply(t, BeginStart(no_players, s))

StartAssign(t) ==
    /\ thr[t].pc = "assign"
    /\ Apply(t, AssignStep(thr[t], no_players))

StartSort(t) ==
    /\ thr[t].pc = "sort"
    /\ Apply(t, SortStep(thr[t], no_players))

StartStore(t) ==
    /\ thr[t].pc = "store"
    /\ Apply(t, StoreStep(thr[t], no_players))

\* the requests that have a handler; a request to a route without one runs
\* no code of the server and is left to Spec
NextThreaded ==
    \/ \E name \in ThreadedNames : issued < MaxThreadedIds /\ Ready(name)
    \/ Clear
    \/ Check
    \/ \E id \in 0..issued : GetHand(id)
    \/ \E t \in Threads : StartBegin(t)
    \/ \E t \in Threads : StartAssign(t)
    \/ \E t \in Threads : StartSort(t)
    \/ \E t \in Threads : StartStore(t)

SpecThreaded == Init /\ [][NextThreaded]_vars

(***************************************************************************)
(* A Deck object on its own.                                               *)
(***************************************************************************)
RECURSIVE GCD(_, _)
GCD(a, b) == IF b = 0 THEN a ELSE GCD(b, a % b)

\* deck = Deck()
DeckNew ==
    /\ dk' = NewDeck
    /\ UNCHANGED server

\* deck.shuffle(), with an outcome that is a permutation of a list this long
DeckShuffle(s) ==
    /\ dk.op # "none"
    /\ dk.calls < MaxDeckCalls
    /\ GCD(s[1], Len(dk.cards)) = 1
    /\ dk' = [dk EXCEPT !.cards = Shuffle(dk.cards, s), !.op = "shuffle",
                        !.n = 0, !.k = 0, !.hands = <<>>, !.err = "none",
                        !.before = <<>>, !.calls = dk.calls + 1]
    /\ UNCHANGED server

\* deck.deal(n, k)
DeckDeal(n, k) ==
    /\ dk.op # "none"
    /\ dk.calls < MaxDeckCalls
    /\ \E d \in {Deal(dk.cards, n, k)} :
          dk' = [cards |-> d.cards, op |-> "deal", n |-> n, k |-> k,
                 hands |-> d.hands, err |-> d.err, before |-> dk.cards,
                 calls |-> dk.calls + 1]
    /\ UNCHANGED server

NextDeck ==
    \/ DeckNew
    \/ \E s \in Shuffles : DeckShuffle(s)
    \/ \E n \in 0..MaxDealHands : \E k \in 0..MaxDealCards : DeckDeal(n, k)

SpecDeck == Init /\ [][NextDeck]_vars

(***************************************************************************)
(* Vocabulary of the properties.                                           *)
(***************************************************************************)
Cards(hand) == {hand[k] : k \in 1..Len(hand)}

NoRepeat(hand) == Cardinality(Cards(hand)) = Len(hand)

\* the 52 cards: one per suit and rank
CardSet == [suit : {"Hearts", "Diamonds", "Spades", "Clubs"}, rank : 1..NumRanks]

Players == 1..Len(no_players)

\* lifecycle phase Dealt: a deal has given some registered player a hand
Dealt == AnyDealt(no_players)

\* every entry holds a hand of 13 cards
AllHold13 ==
    \A k \in Players : no_players[k].dealt /\ Len(no_players[k].hands) = HandSize

\* no card in two stored hands, none twice in one
StoredHandsDisjoint ==
    /\ \A k \in Players : NoRepeat(no_players[k].hands)
    /\ \A k, m \in Players :
         k # m => Cards(no_players[k].hands) \cap Cards(no_players[m].hands) = {}

StoredCards == UNION {Cards(no_players[k].hands) : k \in Players}

\* the cards of the hands k..Len(hands) of a deal
RECURSIVE CardsFrom(_, _)
CardsFrom(hands, k) ==
    IF k > Len(hands) THEN {} ELSE Cards(hands[k]) \cup CardsFrom(hands, k + 1)

\* what the client reads back from a response of /gethands
DecodeHand(body) ==
    [k \in 1..Len(body) |->
        Card(body[k][2], CHOOSE r \in 1..NumRanks : ToString(r) = body[k][1])]

StartRunning == \E t \in Threads : thr[t].pc # "idle"

\* a whole hand: a hand of a deal, as dealt or in display order
WholeHands == DealtHands \cup {Sorted(h) : h \in DealtHands}

(***************************************************************************)
(* C1.  After a start with exactly 4 registered players every player holds *)
(* 13 cards, the four hands are pairwise disjoint, the deck is empty and   *)
(* the hands together are the 52 cards of the deck that was built.         *)
(***************************************************************************)
C1_FourPlayersGetWholeDeck ==
    (last.op = "start" /\ Len(no_players) = 4) =>
        /\ last.status = "ok"
        /\ AllHold13
        /\ StoredHandsDisjoint
        /\ Len(seen.deck) = 0
        /\ StoredCards = CardSet

C1_Witness ==
    /\ last.op = "start" /\ last.status = "ok"
    /\ Len(no_players) = 4
    /\ \A k \in Players : no_players[k].dealt

(***************************************************************************)
(* C2.  A start with more than 4 registered players fails with the         *)
(* insufficient-cards error (the ValueError of Deck.deal) and leaves the   *)
(* registry as it was.  Not so in start: deal(4, 13) succeeds, four hands   *)
(* are assigned, and hands[4] then raises IndexError.                      *)
(***************************************************************************)
C2_FailedStartKeepsRegistry ==
    [][(last'.op = "start" /\ Len(no_players) > NumHands) =>
          /\ last'.status = "error"
          /\ last'.err = "ValueError"
          /\ no_players' = no_players]_vars

(***************************************************************************)
(* C3.  While the game is in phase Dealt every player in the registry      *)
(* holds a hand: a register after start leaves no entry without one.       *)
(* Not so in ready, which adds an entry without 'hands' in any phase.       *)
(***************************************************************************)
C3_DealtMeansEveryoneHolds ==
    Dealt => \A k \in Players : no_players[k].dealt

(***************************************************************************)
(* C4.  getHand for a registered player that no start has dealt to returns *)
(* the empty sequence and does not fail.  Not so in gethand: the entry has  *)
(* no key 'hands' and the lookup raises KeyError.                          *)
(***************************************************************************)
C4_HandBeforeStartIsEmpty ==
    \A k \in Players :
        (last.op = "gethand" /\ last.id = no_players[k].id /\ ~no_players[k].dealt) =>
            (last.status = "ok" /\ last.body = <<>>)

C6_ResetEmptiesRegistry ==
    /\ ENABLED Clear
    /\ last.op = "clear" =>
         /\ last.status = "ok"
         /\ Len(no_players) = 0
         /\ ~Dealt
         /\ Cleared(no_players) = no_players

\* a reset served while a start is in its first loop over two players
C6_Witness ==
    /\ last.op = "clear"
    /\ \E t \in Threads : thr[t].pc = "assign" /\ ~thr[t].live /\ thr[t].size = 2
    /\ no_players = <<>>

(***************************************************************************)
(* C7.  start and register exclude each other: start sees the registry of  *)
(* one instant and never fails because the registry changed under it.      *)
(* Not so without a lock: an insertion during a loop of start makes the    *)
(* loop raise RuntimeError, one between the loops makes it raise KeyError. *)
(***************************************************************************)
C7_StartSeesOneRegistry ==
    last.op = "start" => last.err \notin {"RuntimeError", "KeyError"}

(***************************************************************************)
(* C8.  As claimed: a getHand that runs while a start does returns a whole *)
(* hand of 13 cards in display order, never one not yet sorted.            *)
(***************************************************************************)
C8_HandSeenIsSorted ==
    (last.op = "gethand" /\ last.status = "ok") =>
        /\ Len(last.body) = HandSize
        /\ DecodeHand(last.body) = Sorted(DecodeHand(last.body))

(***************************************************************************)
(* C8, amended.  A getHand that runs while a start does never returns a    *)
(* partial hand: what it returns is a whole hand of 13 different cards,    *)
(* one of the 4 hands of one deal, either in the order it was dealt in or  *)
(* in display order.                                                       *)
(***************************************************************************)
C8_HandSeenIsWhole ==
    (last.op = "gethand" /\ last.status = "ok") =>
        \A h \in {DecodeHand(last.body)} :
            /\ Len(h) = HandSize
            /\ NoRepeat(h)
            /\ h \in WholeHands

\* a hand read between the two loops of a start: whole, not yet sorted
C8_Witness ==
    /\ last.op = "gethand" /\ last.status = "ok"
    /\ StartRunning
    /\ Len(last.body) = HandSize
    /\ DecodeHand(last.body) # Sorted(DecodeHand(last.body))

(***************************************************************************)
(* C9.  In every reachable state no card is in the stored hands of two     *)
(* players and none is twice in one hand.  Not so when two starts run at   *)
(* once: their loops interleave and the players get hands of two decks.    *)
(***************************************************************************)
C9_NoCardTwice == StoredHandsDisjoint

(***************************************************************************)
(* C10.  A start in phase Dealt with at most 4 players succeeds and deals  *)
(* again: every player's hand is then the hand dealt to it from one newly  *)
(* built and shuffled deck of 52 cards, in display order, and no card of   *)
(* an earlier deal is left beside them.                                    *)
(***************************************************************************)
C10_RestartDealsAgain ==
    (last.op = "start" /\ seen.redeal /\ seen.count <= NumHands) =>
        /\ last.status = "ok"
        /\ Len(seen.hands) = NumHands
        /\ CardsFrom(seen.hands, 1) = CardSet
        /\ \A k \in 1..NumHands : Len(seen.hands[k]) = HandSize
        /\ \A k \in Players :
             /\ no_players[k].dealt
             /\ no_players[k].hands = Sorted(seen.hands[k])

\* a start served while players held hands already, three players registered
C10_Witness ==
    /\ last.op = "start" /\ last.status = "ok"
    /\ seen.redeal
    /\ seen.count = 3
    /\ \A k \in Players : no_players[k].hands = Sorted(seen.hands[k])

(***************************************************************************)
(* C11.  For a deck without duplicates, shuffled or not, and any n, k with *)
(* n*k <= |deck|, deal(n, k) returns n hands of k cards each, no card is   *)
(* in two hands or twice in one, no dealt card is left in the deck, and    *)
(* the deck afterwards has |deck| - n*k cards, none of them twice.         *)
(***************************************************************************)
C11_DealGivesDisjointHands ==
    (dk.op = "deal" /\ dk.n * dk.k <= Len(dk.before)) =>
        /\ dk.err = "none"
        /\ Len(dk.hands) = dk.n
        /\ \A i \in 1..Len(dk.hands) :
             /\ Len(dk.hands[i]) = dk.k
             /\ NoRepeat(dk.hands[i])
             /\ Cards(dk.hands[i]) \cap Cards(dk.cards) = {}
        /\ \A i, j \in 1..Len(dk.hands) :
             i # j => Cards(dk.hands[i]) \cap Cards(dk.hands[j]) = {}
        /\ Len(dk.cards) = Len(dk.before) - dk.n * dk.k
        /\ NoRepeat(dk.cards)
        /\ Cards(dk.cards) \cup CardsFrom(dk.hands, 1) = Cards(dk.before)

\* three hands of five dealt from the 26 cards left of a shuffled deck
C11_Witness ==
    /\ dk.op = "deal" /\ dk.err = "none"
    /\ dk.n = 3 /\ dk.k = 5
    /\ Len(dk.before) = 26
    /\ dk.before[2] # BuildDeck[2]
    /\ Len(dk.cards) = 11

(***************************************************************************)
(* C12.  deal(n, k) with n*k greater than the size of the deck fails with  *)
(* an error and leaves the deck as it was before the call: the same cards  *)
(* in the same order; no hand is produced.                                 *)
(***************************************************************************)
C12_DealTooManyKeepsDeck ==
    (dk.op = "deal" /\ dk.n * dk.k > Len(dk.before)) =>
        /\ dk.err = "ValueError"
        /\ dk.hands = <<>>
        /\ dk.cards = dk.before

\* 27 cards asked of the 26 left in the deck
C12_Witness ==
    /\ dk.op = "deal" /\ dk.err = "ValueError"
    /\ dk.n = 3 /\ dk.k = 9
    /\ Len(dk.before) = 26
    /\ dk.cards = dk.before

(***************************************************************************)
(* C13.  Every /ready returns an identifier that is no key of the registry *)
(* at that moment and was never returned before, adds one entry under it   *)
(* with the given name and no hand, after the entries there were, and      *)
(* leaves every other entry as it was; a name that is registered already   *)
(* gets a new entry of its own.                                            *)
(***************************************************************************)
C13_ReadyAddsOneFreshEntry ==
    [][last'.op = "ready" =>
         /\ last'.status = "ok"
         /\ Position(no_players, last'.id) = 0
         /\ last'.id \notin 0..issued
         /\ Len(no_players') = Len(no_players) + 1
         /\ no_players'[Len(no_players')] =
              [id |-> last'.id, name |-> last'.name, dealt |-> FALSE, hands |-> <<>>]
         /\ \A k \in 1..Len(no_players) : no_players'[k] = no_players[k]]_vars

\* a name registered a second time, after the first entry was dealt a hand
C13_Witness ==
    /\ last.op = "ready" /\ last.name = "ben"
    /\ Len(no_players) = 3
    /\ no_players[3].id = last.id /\ no_players[3].name = "ben"
    /\ ~no_players[3].dealt
    /\ no_players[1].name = "ben" /\ no_players[1].id # last.id
    /\ no_players[1].dealt
    /\ no_players[2].name = "bel"

\* the place of a suit in a list of the four suits
PlaceIn(order, suit) == CHOOSE i \in 1..Len(order) : order[i] = suit

\* hand runs through the suits in the order given and, within one suit,
\* through the ranks upwards
OrderedBy(hand, order) ==
    \A i \in 1..(Len(hand) - 1) :
        \/ PlaceIn(order, hand[i].suit) < PlaceIn(order, hand[i + 1].suit)
        \/ /\ hand[i].suit = hand[i + 1].suit
           /\ hand[i].rank <= hand[i + 1].rank

(***************************************************************************)
(* C14.  After start completes, every stored hand is ordered by suit in    *)
(* the order the suits are listed in (Hearts, Diamonds, Spades, Clubs)     *)
(* and, within one suit, by ascending rank.  Not so: the sort key is the   *)
(* suit's name, a string.                                                  *)
(***************************************************************************)
C14_HandsInListedSuitOrder ==
    (last.op = "start" /\ last.status = "ok") =>
        \A k \in Players : OrderedBy(no_players[k].hands, Suits)

(***************************************************************************)
(* C14, as the code has it.  After start completes, every stored hand is   *)
(* ordered by the name of the suit, alphabetically (Clubs, Diamonds,       *)
(* Hearts, Spades) and, within one suit, by ascending rank.                *)
(***************************************************************************)
C14_HandsInSuitNameOrder ==
    (last.op = "start" /\ last.status = "ok") =>
        \A k \in Players :
            /\ no_players[k].dealt
            /\ OrderedBy(no_players[k].hands, <<"Clubs", "Diamonds", "Hearts", "Spades">>)

\* four players dealt hands, one of them from a club up to a spade
C14_Witness ==
    /\ last.op = "start" /\ last.status = "ok"
    /\ Len(no_players) = NumHands
    /\ \E k \in Players :
         /\ Len(no_players[k].hands) = HandSize
         /\ no_players[k].hands[1].suit = "Clubs"
         /\ no_players[k].hands[HandSize].suit = "Spades"
         /\ \E i \in 1..HandSize : no_players[k].hands[i].suit = "Hearts"

(***************************************************************************)
(* C15.  /gethands with an identifier that is no key of the registry       *)
(* (never issued, or issued before the last /clear) fails with the error   *)
(* of the missing key and leaves the registry unchanged; it returns no     *)
(* hand, so never the hand of another player.                              *)
(***************************************************************************)
C15_UnknownIdFails ==
    [][(/\ last'.op = "gethand"
        /\ \A k \in 1..Len(no_players) : no_players[k].id # last'.id) =>
         /\ last'.status = "error"
         /\ last'.err = "KeyError"
         /\ last'.body = <<>>
         /\ no_players' = no_players]_vars

\* the hand asked for under an identifier issued before a /clear, while a
\* player registered after it holds a hand
C15_Witness ==
    /\ last.op = "gethand" /\ last.status = "error"
    /\ last.id \in 1..issued
    /\ \A k \in Players : no_players[k].id # last.id
    /\ \E k \in Players : no_players[k].dealt /\ Len(no_players[k].hands) = HandSize

(***************************************************************************)
(* C16.  playCard(id, card) on a dealt player whose hand contains the card *)
(* returns the card and shrinks that player's hand by that one card, all   *)
(* other hands unchanged (and playing the same card again then fails and   *)
(* leaves the hand as it is).  Not so: the server has no /playcard route,  *)
(* the request the client sends fails and the hand keeps the card.         *)
(***************************************************************************)
C16_PlayCardTakesCardFromHand ==
    [][\A k \in 1..Len(no_players) :
         (/\ last'.op = "playcard"
          /\ no_players[k].id = last'.id
          /\ no_players[k].dealt
          /\ DecodeHand(last'.body)[1] \in Cards(no_players[k].hands)) =>
            /\ last'.status = "ok"
            /\ Len(no_players') = Len(no_players)
            /\ Len(no_players'[k].hands) = Len(no_players[k].hands) - 1
            /\ Cards(no_players'[k].hands) =
                 Cards(no_players[k].hands) \ {DecodeHand(last'.body)[1]}
            /\ \A m \in 1..Len(no_players) :
                 m # k => no_players'[m] = no_players[m]]_vars

\* the deck of the last start as its shuffle left it
ShuffledDeck == Shuffle(BuildDeck, seen.shuffle)

\* the i-th block (i = 0, 1, ...) of 13 cards of a deck, counted from the end
\* the cards are dealt from
Block(deck, i) == {deck[Len(deck) - HandSize * i - j] : j \in 0..(HandSize - 1)}

(***************************************************************************)
(* C17.  What start gives each player depends on the order of the shuffled *)
(* deck and the order of registration only: the i-th registered player     *)
(* (i = 0, 1, ...) receives the i-th block of 13 consecutive cards from    *)
(* the dealing end of the shuffled deck, the card nearest the end first.   *)
(***************************************************************************)
C17_PlayerGetsItsBlock ==
    last.op = "start" =>
        \A k \in Players :
            k <= NumHands =>
                /\ no_players[k].dealt
                /\ Len(no_players[k].hands) = HandSize
                /\ Cards(no_players[k].hands) = Block(ShuffledDeck, k - 1)
                /\ \A j \in 1..HandSize :
                     seen.hands[k][j] =
                        ShuffledDeck[Len(ShuffledDeck) - HandSize * (k - 1) - (j - 1)]

\* three players dealt to from a deck whose shuffle moved the cards
C17_Witness ==
    /\ last.op = "start" /\ last.status = "ok"
    /\ seen.count = 3
    /\ ShuffledDeck # BuildDeck
    /\ Cards(no_players[3].hands) = Block(ShuffledDeck, 2)
    /\ Cards(no_players[3].hands) # Block(BuildDeck, 2)

(***************************************************************************)
(* C18.  /start with no player registered succeeds and does nothing: it    *)
(* returns the success value, assigns no hand and leaves the registry      *)
(* empty, so the player count stays 0.                                     *)
(***************************************************************************)
C18_StartWithNobodySucceeds ==
    (last.op = "start" /\ seen.count = 0) =>
        /\ last.status = "ok"
        /\ last.err = "none"
        /\ no_players = <<>>
        /\ ~Dealt

\* a start served after two players registered and a /clear dropped them
C18_Witness ==
    /\ last.op = "start" /\ last.status = "ok"
    /\ seen.count = 0
    /\ issued = 2
    /\ no_players = <<>>

(***************************************************************************)
(* C19.  In every reachable state the player count, which is what          *)
(* /checkplayers answers, is the number of /ready requests completed since *)
(* the last /clear (or since the server began); /start and /gethands do    *)
(* not change it, whether they succeed or fail.                            *)
(***************************************************************************)
C19_CountIsRegistrationsSinceClear ==
    /\ Len(no_players) = registered
    /\ last.op = "checkplayers" => last.count = registered

\* /checkplayers answers 1: one player registered before a /clear, one after
\* it, and a /start is under way
C19_Witness ==
    /\ last.op = "checkplayers" /\ last.count = 1
    /\ issued = 2
    /\ registered = 1
    /\ StartRunning

(***************************************************************************)
(* C20.  /start changes hands only: whether it succeeds or fails, the      *)
(* registry has the same identifiers, in the same order, with the same     *)
(* name under each, after it as before it.  /gethands and /checkplayers    *)
(* change nothing of the server's state.                                   *)
(***************************************************************************)
C20_StartChangesHandsOnly ==
    [][/\ last'.op = "start" =>
            /\ Len(no_players') = Len(no_players)
            /\ \A k \in 1..Len(no_players) :
                 /\ no_players'[k].id = no_players[k].id
                 /\ no_players'[k].name = no_players[k].name
            /\ issued' = issued
            /\ registered' = registered
       /\ last'.op \in {"gethand", "checkplayers"} =>
            /\ no_players' = no_players
            /\ issued' = issued
            /\ registered' = registered]_vars

\* a start that failed at the fifth of five players, two names among them
C20_Witness ==
    /\ last.op = "start" /\ last.status = "error"
    /\ Len(no_players) = 5
    /\ no_players[1].name # no_players[5].name
    /\ no_players[1].dealt /\ ~no_players[5].dealt
    /\ \A k \in Players : no_players[k].name \in Names /\ no_players[k].id = k

====
